---- MODULE Spec2Model ----
(***************************************************************************)
(* Model of trifoia-config's loadConfig (src/config.js and the second      *)
(* definition in src/unnamed/part_000): the priority merge of a two-level  *)
(* configuration object from overrides, environment variables, the secret  *)
(* config file and the schema's defaults, followed by the errorOnUndefined *)
(* check.                                                                  *)
(***************************************************************************)
EXTENDS Integers, Sequences, FiniteSets, TLC

(***************************************************************************)
(* JavaScript values.  Every value is a tagged record, so that values of   *)
(* different JavaScript types are different and comparable.                *)
(***************************************************************************)
Undefined == [t |-> "undefined"]
Null == [t |-> "null"]
NaN == [t |-> "nan"]
Bool(b) == [t |-> "bool", b |-> b]
Num(n) == [t |-> "num", n |-> n]
Str(s) == [t |-> "str", s |-> s]
Obj(f) == [t |-> "obj", f |-> f]

\* the object literal {}
EmptyObj == Obj(<<>>)

\* JavaScript truthiness (the test of `if (x)` and of `x && y`)
Truthy(v) ==
  CASE v.t = "undefined" -> FALSE
    [] v.t = "null" -> FALSE
    [] v.t = "nan" -> FALSE
    [] v.t = "bool" -> v.b
    [] v.t = "num" -> v.n # 0
    [] v.t = "str" -> v.s # ""
    [] OTHER -> TRUE

\* the keys a for-in statement enumerates (none for a non-indexed value)
Keys(v) == IF v.t = "obj" THEN DOMAIN v.f ELSE {}

\* property read v[key]; a missing property reads as undefined
Get(v, key) == IF key \in Keys(v) THEN v.f[key] ELSE Undefined

\* SetValue written as config[valueKey] = value, the category forgotten
SetValue_onConfig(cfg, categoryKey, valueKey, value) ==
  Obj([key \in DOMAIN cfg.f \cup {valueKey} |->
         IF key = valueKey THEN value ELSE cfg.f[key]])

\* the assignment config[categoryKey][valueKey] = value, in place
SetValue(cfg, categoryKey, valueKey, value) ==
  Obj([cfg.f EXCEPT ![categoryKey] =
         Obj([cfg.f[categoryKey].f EXCEPT ![valueKey] = value])])

\* a !== b: NaN is unequal to everything, itself included
StrictNotEqual(a, b) == IF a = NaN \/ b = NaN THEN TRUE ELSE a # b

\* the global isNaN applied to a number
isNaN(num) == num = NaN

(***************************************************************************)
(* Bounds and the sets the inputs are drawn from.                          *)
(***************************************************************************)
\* how many strings of EnvStringList an environment variable may hold
NumEnvStrings == 4

EnvStringList == <<"42", "true", "not json", "", "null", "0x10", "{}", "\"42\"">>

EnvStrings ==
  {EnvStringList[i] : i \in 1..(IF NumEnvStrings < Len(EnvStringList)
                                THEN NumEnvStrings ELSE Len(EnvStringList))}

CategoryKeys == {"config", "db"}

ValueKeys(categoryKey) ==
  IF categoryKey = "config" THEN {"errorOnUndefined"} ELSE {"port"}

\* the categories over a category's keys with values of vals: those defining
\* every key, or (sparse) those defining any subset, the empty one included
CategoriesOf(catKey, vals, sparse) ==
  {Obj(f) : f \in UNION {[ks -> vals] :
                           ks \in IF sparse THEN SUBSET ValueKeys(catKey)
                                  ELSE {ValueKeys(catKey)}}}

\* the two-level objects over a subset of the categories
ConfigObjects(vals, sparse) ==
  UNION {{Obj(g) : g \in {h \in [cs -> UNION {CategoriesOf(c, vals, sparse) : c \in cs}] :
                            \A c \in cs : h[c] \in CategoriesOf(c, vals, sparse)}} :
         cs \in SUBSET CategoryKeys}

SchemaValues == {Undefined, Bool(TRUE)}
OverrideValues == {Undefined, Null}
SecretValues == {Str("secret")}

Schemas == ConfigObjects(SchemaValues, TRUE)

\* the two definitions of loadConfig
Impls == {"config.js", "part_000"}

\* the name of the environment variable of a category/key pair
VarName(categoryKey, valueKey) == "conf_" \o categoryKey \o "_" \o valueKey

EnvNames == UNION {{VarName(c, k) : k \in ValueKeys(c)} : c \in CategoryKeys}

\* the file .conf.default.js of the repository
DefaultConfFile == Obj([config |-> Obj([errorOnUndefined |-> Bool(FALSE)])])

Missing == [t |-> "missing"]
LoadError == [t |-> "loaderror"]

\* no previous call of loadConfig; checkForUndefinedRecursive not called
NoResult == [t |-> "none"]
NotCalled == [t |-> "notcalled"]

VARIABLES
  impl,          \* which definition of loadConfig runs
  configArg,     \* the config argument as passed
  opts,          \* the opts argument: overrides, disableEnvarParsing
  env,           \* process.env
  files,         \* what workingDir holds: .conf.default.js and .conf.js
  pc,            \* position in loadConfig
  config,        \* the local config, the object being resolved
  secretConfig,  \* the local secretConfig
  todoCats,      \* categories the outer for-in has yet to visit
  categoryKey,   \* the category of the current outer iteration
  todoKeys,      \* keys the inner for-in has yet to visit
  required,      \* the files require() was called on
  error,         \* the error thrown, if any
  firstResult,   \* outcome of the previous call of loadConfig, if any
  checkArg,      \* the value checkForUndefinedRecursive is called on
  keyOrder,      \* the order in which for-in enumerates keys
  checkOut       \* what that call returned, logged and visited

vars == <<impl, configArg, opts, env, files, pc, config, secretConfig,
          todoCats, categoryKey, todoKeys, required, error,
          firstResult, checkArg, keyOrder, checkOut>>

inputs == <<impl, configArg, opts, env, files>>

\* the state that no step inside one call of loadConfig touches
outside == <<firstResult, checkArg, keyOrder, checkOut>>

(***************************************************************************)
(* Helpers of the source and the built-ins it calls.                       *)
(***************************************************************************)
\* checkExists testing `valueKey in obj[categoryKey]` instead of the typeof
checkExists_keyIn(obj, catKey, valueKey) ==
  Truthy(Get(obj, catKey)) /\ valueKey \in Keys(Get(obj, catKey))

\* checkExists testing the truthiness of the value instead of the typeof
checkExists_truthy(obj, catKey, valueKey) ==
  Truthy(Get(obj, catKey)) /\ Truthy(Get(Get(obj, catKey), valueKey))

\* checkExists, as the truthiness of what it returns
checkExists(obj, catKey, valueKey) ==
  Truthy(Get(obj, catKey)) /\ Get(Get(obj, catKey), valueKey) # Undefined

\* checkForUndefinedRecursive: FALSE as soon as an undefined value is found
RECURSIVE checkForUndefinedRecursive(_)
checkForUndefinedRecursive(obj) ==
  IF obj.t = "undefined" THEN FALSE
  ELSE IF obj.t = "str" THEN TRUE
  ELSE \A key \in Keys(obj) : checkForUndefinedRecursive(obj.f[key])

\* `this` of the module scope, which the arrow function loadConfig sees: the
\* module's initial exports object, on which nothing is ever set
This == EmptyObj

\* JSON.parse on the environment strings: the value, or a thrown SyntaxError
SyntaxError == [t |-> "syntaxerror"]

JSONparse(s) ==
  CASE s = "42" -> Num(42)
    [] s = "true" -> Bool(TRUE)
    [] s = "null" -> Null
    [] s = "{}" -> EmptyObj
    [] s = "\"42\"" -> Str("42")
    [] OTHER -> SyntaxError

\* Number(string): the numeric value of a string, NaN when it has none
StringToNumber(s) ==
  CASE s = "42" -> Num(42)
    [] s = "" -> Num(0)
    [] s = "0x10" -> Num(16)
    [] OTHER -> NaN

\* Number(v)
Number(v) ==
  CASE v.t = "undefined" -> NaN
    [] v.t = "null" -> Num(0)
    [] v.t = "bool" -> (IF v.b THEN Num(1) ELSE Num(0))
    [] v.t = "num" -> v
    [] v.t = "nan" -> NaN
    [] v.t = "str" -> StringToNumber(v.s)
    [] OTHER -> NaN

\* the test that guards `category[valueKey] = num` in each definition
NumberTest(which, num) ==
  IF which = "config.js" THEN StrictNotEqual(num, NaN) ELSE ~isNaN(num)

\* the try/catch around JSON.parse: the parsed value, or the string kept
ParsedOrRaw(value) ==
  IF JSONparse(value.s) = SyntaxError THEN value ELSE JSONparse(value.s)

\* EnvironmentValue with the disableEnvarParsing test inverted
EnvironmentValue_inverted(which, options, value) ==
  IF ~StrictNotEqual(Get(options, "disableEnvarParsing"), Bool(TRUE))
  THEN LET parsed == ParsedOrRaw(value)
           num == Number(parsed)
       IN IF NumberTest(which, num) THEN num ELSE parsed
  ELSE value

\* what the environment branch stores for the environment string `value`
EnvironmentValue(which, options, value) ==
  IF StrictNotEqual(Get(options, "disableEnvarParsing"), Bool(TRUE))
  THEN LET parsed == ParsedOrRaw(value)
           num == Number(parsed)
       IN IF NumberTest(which, num) THEN num ELSE parsed
  ELSE value

\* process.env[varName]
ProcessEnv(varName) == IF varName \in DOMAIN env THEN env[varName] ELSE Undefined

\* the guards of the three branches of the inner loop body
OverrideExists(catKey, valueKey) ==
  Truthy(Get(opts, "overrides")) /\ checkExists(Get(opts, "overrides"), catKey, valueKey)

\* the environment consulted only for a value that is still undefined
EnvironmentExists_whenUndefined(catKey, valueKey) ==
  /\ Get(Get(config, catKey), valueKey) = Undefined
  /\ Truthy(ProcessEnv(VarName(catKey, valueKey)))

EnvironmentExists(catKey, valueKey) == Truthy(ProcessEnv(VarName(catKey, valueKey)))

SecretExists(catKey, valueKey) == checkExists(secretConfig, catKey, valueKey)

(***************************************************************************)
(* The state machine: one call of loadConfig on drawn inputs.              *)
(***************************************************************************)
OptsSet ==
  {Obj([overrides |-> o, disableEnvarParsing |-> d]) :
     o \in {Undefined} \cup ConfigObjects(OverrideValues, FALSE),
     d \in {Undefined, Bool(TRUE)}}

FilesSet ==
  {[default |-> d, secret |-> s] :
     d \in {Missing, DefaultConfFile},
     s \in {Missing, LoadError} \cup ConfigObjects(SecretValues, FALSE)}

Init ==
  /\ impl \in Impls
  /\ configArg \in {Null} \cup Schemas
  /\ opts \in OptsSet
  /\ env \in [EnvNames -> {Undefined} \cup {Str(s) : s \in EnvStrings}]
  /\ files \in FilesSet
  /\ pc = "start"
  /\ config = configArg
  /\ secretConfig = EmptyObj
  /\ todoCats = {}
  /\ categoryKey = ""
  /\ todoKeys = {}
  /\ required = {}
  /\ error = "none"
  /\ firstResult = NoResult
  /\ checkArg = Undefined
  /\ keyOrder = <<>>
  /\ checkOut = NotCalled

\* LoadDefault falling back to an empty schema when the file is missing
LoadDefault_fallback ==
  /\ pc = "start"
  /\ IF ~Truthy(config)
     THEN /\ required' = required \cup {".conf.default.js"}
          /\ config' = IF files.default = Missing THEN EmptyObj ELSE files.default
     ELSE UNCHANGED <<config, required>>
  /\ pc' = "secret"
  /\ UNCHANGED <<inputs, outside, secretConfig, todoCats, categoryKey, todoKeys, error>>

\* if (!config) config = require('.conf.default.js')
LoadDefault ==
  /\ pc = "start"
  /\ IF ~Truthy(config)
     THEN /\ required' = required \cup {".conf.default.js"}
          /\ IF files.default = Missing
             THEN /\ pc' = "thrown"
                  /\ error' = "load"
                  /\ UNCHANGED config
             ELSE /\ pc' = "secret"
                  /\ config' = files.default
                  /\ UNCHANGED error
     ELSE /\ pc' = "secret"
          /\ UNCHANGED <<config, required, error>>
  /\ UNCHANGED <<inputs, outside, secretConfig, todoCats, categoryKey, todoKeys>>

\* LoadSecret catching only the missing file, any other load error escaping
LoadSecret_rethrow ==
  /\ pc = "secret"
  /\ required' = required \cup {".conf.js"}
  /\ IF files.secret = LoadError
     THEN /\ pc' = "thrown"
          /\ error' = "load"
          /\ UNCHANGED <<secretConfig, todoCats>>
     ELSE /\ secretConfig' = IF files.secret = Missing THEN EmptyObj ELSE files.secret
          /\ todoCats' = Keys(config)
          /\ pc' = "loop"
          /\ UNCHANGED error
  /\ UNCHANGED <<inputs, outside, config, categoryKey, todoKeys>>

\* let secretConfig = {}; try { secretConfig = require('.conf.js') } catch
LoadSecret ==
  /\ pc = "secret"
  /\ required' = required \cup {".conf.js"}
  /\ secretConfig' = IF files.secret \in {Missing, LoadError}
                     THEN EmptyObj ELSE files.secret
  /\ todoCats' = Keys(config)
  /\ pc' = "loop"
  /\ UNCHANGED <<inputs, outside, config, categoryKey, todoKeys, error>>

\* the outer for-in moves to another category
NextCategory ==
  /\ pc = "loop"
  /\ todoKeys = {}
  /\ \E c \in todoCats :
       /\ categoryKey' = c
       /\ todoCats' = todoCats \ {c}
       /\ todoKeys' = Keys(Get(config, c))
  /\ UNCHANGED <<inputs, outside, pc, config, secretConfig, required, error>>

\* inner loop body, the value is in the configuration overrides
ApplyOverride ==
  /\ pc = "loop"
  /\ \E valueKey \in todoKeys :
       /\ OverrideExists(categoryKey, valueKey)
       /\ config' = SetValue(config, categoryKey, valueKey,
                             Get(Get(Get(opts, "overrides"), categoryKey), valueKey))
       /\ todoKeys' = todoKeys \ {valueKey}
  /\ UNCHANGED <<inputs, outside, pc, secretConfig, todoCats, categoryKey, required, error>>

\* inner loop body, the value is in the environment variables
ApplyEnvironment ==
  /\ pc = "loop"
  /\ \E valueKey \in todoKeys :
       /\ ~OverrideExists(categoryKey, valueKey)
       /\ EnvironmentExists(categoryKey, valueKey)
       /\ config' = SetValue(config, categoryKey, valueKey,
                             EnvironmentValue(impl, opts,
                                              ProcessEnv(VarName(categoryKey, valueKey))))
       /\ todoKeys' = todoKeys \ {valueKey}
  /\ UNCHANGED <<inputs, outside, pc, secretConfig, todoCats, categoryKey, required, error>>

\* inner loop body, the value is in the secret config
ApplySecret ==
  /\ pc = "loop"
  /\ \E valueKey \in todoKeys :
       /\ ~OverrideExists(categoryKey, valueKey)
       /\ ~EnvironmentExists(categoryKey, valueKey)
       /\ SecretExists(categoryKey, valueKey)
       /\ config' = SetValue(config, categoryKey, valueKey,
                             Get(Get(secretConfig, categoryKey), valueKey))
       /\ todoKeys' = todoKeys \ {valueKey}
  /\ UNCHANGED <<inputs, outside, pc, secretConfig, todoCats, categoryKey, required, error>>

\* inner loop body, no source has the value
KeepDefault ==
  /\ pc = "loop"
  /\ \E valueKey \in todoKeys :
       /\ ~OverrideExists(categoryKey, valueKey)
       /\ ~EnvironmentExists(categoryKey, valueKey)
       /\ ~SecretExists(categoryKey, valueKey)
       /\ todoKeys' = todoKeys \ {valueKey}
  /\ UNCHANGED <<inputs, outside, pc, config, secretConfig, todoCats, categoryKey, required, error>>

\* after the loops: the errorOnUndefined check, then return config
CheckAndReturn ==
  /\ pc = "loop"
  /\ todoCats = {}
  /\ todoKeys = {}
  /\ IF /\ Truthy(Get(config, "config"))
        /\ Truthy(Get(Get(config, "config"), "errorOnUndefined"))
        /\ ~checkForUndefinedRecursive(This)
     THEN /\ pc' = "thrown"
          /\ error' = "Undefined configurations detected"
     ELSE /\ pc' = "returned"
          /\ UNCHANGED error
  /\ UNCHANGED <<inputs, outside, config, secretConfig, todoCats, categoryKey, todoKeys, required>>

Next ==
  \/ LoadDefault
  \/ LoadSecret
  \/ NextCategory
  \/ ApplyOverride
  \/ ApplyEnvironment
  \/ ApplySecret
  \/ KeepDefault
  \/ CheckAndReturn

Spec == Init /\ [][Next]_vars

(***************************************************************************)
(* checkForUndefinedRecursive on its own: one call on a drawn value, with  *)
(* what it logs to stderr and the invocations it makes.                    *)
(***************************************************************************)
\* how deep the checked values nest
MaxDepth == 2

CheckKeys == {"a", "b"}
CheckLeaves == {Undefined, Null, Str("")}

RECURSIVE CheckValuesOf(_)
CheckValuesOf(depth) ==
  IF depth = 0 THEN CheckLeaves
  ELSE LET sub == CheckValuesOf(depth - 1)
       IN sub \cup {Obj(f) : f \in UNION {[ks -> sub] : ks \in SUBSET CheckKeys}}

CheckValues == CheckValuesOf(MaxDepth)

\* the enumeration orders of the keys
KeyOrders ==
  {o \in [1..Cardinality(CheckKeys) -> CheckKeys] :
     \A i, j \in DOMAIN o : i # j => o[i] # o[j]}

\* the keys of obj as for-in enumerates them
OrderedKeys(obj, order) == SelectSeq(order, LAMBDA key : key \in Keys(obj))

\* console.error(`Item with key ${originalKey} is undefined`)
Message(originalKey) == "Item with key " \o originalKey \o " is undefined"

RECURSIVE checkForUndefinedRecursiveLog(_, _, _)
RECURSIVE forIn(_, _, _)

\* the for-in loop going on after an item failed the check
forIn_noReturn(obj, keys, order) ==
  IF keys = <<>> THEN [ok |-> TRUE, log |-> <<>>, calls |-> <<>>]
  ELSE LET item == checkForUndefinedRecursiveLog(obj.f[Head(keys)], Head(keys), order)
           rest == forIn(obj, Tail(keys), order)
       IN [ok |-> item.ok /\ rest.ok,
           log |-> item.log \o rest.log,
           calls |-> item.calls \o rest.calls]

\* the for-in loop of checkForUndefinedRecursive over the keys still to visit
forIn(obj, keys, order) ==
  IF keys = <<>> THEN [ok |-> TRUE, log |-> <<>>, calls |-> <<>>]
  ELSE LET item == checkForUndefinedRecursiveLog(obj.f[Head(keys)], Head(keys), order)
       IN IF ~item.ok THEN item
          ELSE LET rest == forIn(obj, Tail(keys), order)
               IN [ok |-> rest.ok,
                   log |-> item.log \o rest.log,
                   calls |-> item.calls \o rest.calls]

\* checkForUndefinedRecursive(obj, originalKey): what it returns (ok), the
\* lines it logs and the invocations made, each with its key and its value
checkForUndefinedRecursiveLog(obj, originalKey, order) ==
  LET call == [key |-> originalKey, value |-> obj]
  IN IF obj.t = "undefined"
     THEN [ok |-> FALSE, log |-> <<Message(originalKey)>>, calls |-> <<call>>]
     ELSE IF obj.t = "str"
     THEN [ok |-> TRUE, log |-> <<>>, calls |-> <<call>>]
     ELSE LET loop == forIn(obj, OrderedKeys(obj, order), order)
          IN [loop EXCEPT !.calls = <<call>> \o @]

InitCheck ==
  /\ impl = "config.js"
  /\ configArg = Null
  /\ opts = EmptyObj
  /\ env = [n \in EnvNames |-> Undefined]
  /\ files = [default |-> Missing, secret |-> Missing]
  /\ pc = "check"
  /\ config = Null
  /\ secretConfig = EmptyObj
  /\ todoCats = {}
  /\ categoryKey = ""
  /\ todoKeys = {}
  /\ required = {}
  /\ error = "none"
  /\ firstResult = NoResult
  /\ checkArg \in CheckValues
  /\ keyOrder \in KeyOrders
  /\ checkOut = NotCalled

\* checkForUndefinedRecursive(checkArg), originalKey defaulting to 'this'
CallCheck ==
  /\ pc = "check"
  /\ checkOut = NotCalled
  /\ checkOut' = checkForUndefinedRecursiveLog(checkArg, "this", keyOrder)
  /\ UNCHANGED <<inputs, pc, config, secretConfig, todoCats, categoryKey,
                 todoKeys, required, error, firstResult, checkArg, keyOrder>>

NextCheck == CallCheck

SpecCheck == InitCheck /\ [][NextCheck]_vars

(***************************************************************************)
(* Calls that follow a finished call: loadConfig applied again to the      *)
(* object it returned, and the other definition run on the same inputs.    *)
(***************************************************************************)
\* how the current call ended
Outcome ==
  IF pc = "returned" THEN [t |-> "returned", config |-> config]
  ELSE [t |-> "thrown", error |-> error]

\* loadConfig called again on the object the first call returned
CallAgain ==
  /\ pc = "returned"
  /\ firstResult = NoResult
  /\ firstResult' = Outcome
  /\ pc' = "start"
  /\ secretConfig' = EmptyObj
  /\ categoryKey' = ""
  /\ UNCHANGED <<inputs, config, todoCats, todoKeys, required, error,
                 checkArg, keyOrder, checkOut>>

NextTwice == Next \/ CallAgain

SpecTwice == Init /\ [][NextTwice]_vars

\* the other definition of loadConfig called with the same arguments, the
\* same environment and the same files
RunOther ==
  /\ pc \in {"returned", "thrown"}
  /\ firstResult = NoResult
  /\ firstResult' = Outcome
  /\ impl' = CHOOSE other \in Impls : other # impl
  /\ config' = configArg
  /\ pc' = "start"
  /\ secretConfig' = EmptyObj
  /\ todoCats' = {}
  /\ categoryKey' = ""
  /\ todoKeys' = {}
  /\ required' = {}
  /\ error' = "none"
  /\ UNCHANGED <<configArg, opts, env, files, checkArg, keyOrder, checkOut>>

NextBoth == Next \/ RunOther

SpecBoth == Init /\ [][NextBoth]_vars

(***************************************************************************)
(* What the claims speak about.                                            *)
(***************************************************************************)
\* the schema S that the call resolves
Schema == IF Truthy(configArg) THEN configArg ELSE files.default

\* the category/key pairs of a two-level object
Pairs(obj) == UNION {{<<c, k>> : k \in Keys(Get(obj, c))} : c \in Keys(obj)}

\* the value of a pair in a two-level object
At(obj, p) == Get(Get(obj, p[1]), p[2])

\* the content of .conf.js, the empty object when it cannot be loaded
SecretSource == IF files.secret \in {Missing, LoadError} THEN EmptyObj ELSE files.secret

\* the environment string of a pair
EnvOf(p) == ProcessEnv(VarName(p[1], p[2]))

\* a source supplies a value for a pair
OverrideSupplies(p) == At(Get(opts, "overrides"), p) # Undefined
EnvSupplies(p) == EnvOf(p).t = "str" /\ EnvOf(p).s # ""
SecretSupplies(p) == At(SecretSource, p) # Undefined

ParsingEnabled == Get(opts, "disableEnvarParsing") # Bool(TRUE)

Returned == pc = "returned"

\* C1: every pair of the schema resolves from the first source that supplies
\* a value, in the order overrides, environment (coerced), secret config,
\* default; with no source supplying anything the schema comes back unchanged
C1_PriorityOrder ==
  Returned =>
    /\ \A p \in Pairs(Schema) :
         At(config, p) =
           IF OverrideSupplies(p) THEN At(Get(opts, "overrides"), p)
           ELSE IF EnvSupplies(p) THEN EnvironmentValue(impl, opts, EnvOf(p))
           ELSE IF SecretSupplies(p) THEN At(SecretSource, p)
           ELSE At(Schema, p)
    /\ (\A p \in Pairs(Schema) :
          ~OverrideSupplies(p) /\ ~EnvSupplies(p) /\ ~SecretSupplies(p))
         => config = Schema

\* a call has returned in which one pair is supplied by all three sources and
\* another pair by none
C1_Witness ==
  /\ Returned
  /\ \E p \in Pairs(Schema) :
       /\ OverrideSupplies(p) /\ EnvSupplies(p) /\ SecretSupplies(p)
       /\ At(config, p) = At(Get(opts, "overrides"), p)
  /\ \E p \in Pairs(Schema) :
       /\ ~OverrideSupplies(p) /\ ~EnvSupplies(p) /\ ~SecretSupplies(p)
       /\ At(config, p) = At(Schema, p)

\* C2: with errorOnUndefined truthy after resolution and an undefined leaf in
\* the resolved schema the call throws instead of returning; a call that
\* throws 'Undefined configurations detected' had both
C2_ErrorOnUndefined ==
  /\ Returned =>
       ~(/\ Truthy(Get(Get(config, "config"), "errorOnUndefined"))
         /\ \E p \in Pairs(config) : At(config, p) = Undefined)
  /\ error = "Undefined configurations detected" =>
       /\ Truthy(Get(Get(config, "config"), "errorOnUndefined"))
       /\ \E p \in Pairs(config) : At(config, p) = Undefined

\* C3: with parsing enabled and no override, the environment string "true"
\* resolves to the boolean true
C3_TrueIsBoolean ==
  Returned =>
    \A p \in Pairs(Schema) :
      (ParsingEnabled /\ ~OverrideSupplies(p) /\ EnvOf(p) = Str("true"))
        => At(config, p) = Bool(TRUE)

\* C4: with parsing enabled and no override, an environment string that is
\* neither valid JSON nor numeric resolves to that exact string
C4_RawStringKept ==
  Returned =>
    \A p \in Pairs(Schema) :
      (/\ ParsingEnabled /\ ~OverrideSupplies(p) /\ EnvSupplies(p)
       /\ JSONparse(EnvOf(p).s) = SyntaxError
       /\ StringToNumber(EnvOf(p).s) = NaN)
        => At(config, p) = EnvOf(p)

\* C5: with parsing enabled and no override, the environment string s
\* resolves to Number(v) when that is not NaN and to v otherwise, v being
\* the JSON parse of s, or s when it does not parse
C5_NumberWhenNotNaN ==
  Returned =>
    \A p \in Pairs(Schema) :
      (ParsingEnabled /\ ~OverrideSupplies(p) /\ EnvSupplies(p))
        => LET v == IF JSONparse(EnvOf(p).s) = SyntaxError
                    THEN EnvOf(p) ELSE JSONparse(EnvOf(p).s)
           IN At(config, p) = IF Number(v) = NaN THEN v ELSE Number(v)

\* C6: with disableEnvarParsing true, a non-empty environment string of a
\* pair without override is the resolved value, as the string it is
C6_ParsingDisabled ==
  Returned =>
    \A p \in Pairs(Schema) :
      (~ParsingEnabled /\ ~OverrideSupplies(p) /\ EnvSupplies(p))
        => At(config, p) = EnvOf(p)

\* a call with parsing disabled has returned the string "42" for a pair
C6_Witness ==
  /\ Returned
  /\ ~ParsingEnabled
  /\ \E p \in Pairs(Schema) :
       /\ ~OverrideSupplies(p)
       /\ EnvOf(p) = Str("42")
       /\ At(config, p) = Str("42")

\* what the sources below the overrides resolve a pair to
BelowOverrides(p) ==
  IF EnvSupplies(p) THEN EnvironmentValue(impl, opts, EnvOf(p))
  ELSE IF SecretSupplies(p) THEN At(SecretSource, p)
  ELSE At(Schema, p)

\* C7: a pair with an override that is not undefined (null included)
\* resolves to the override verbatim whatever the environment and the secret
\* config hold; an undefined override is skipped for the lower sources
C7_OverridesWin ==
  Returned =>
    \A p \in Pairs(Schema) :
      IF /\ p[1] \in Keys(Get(opts, "overrides"))
         /\ At(Get(opts, "overrides"), p) # Undefined
      THEN At(config, p) = At(Get(opts, "overrides"), p)
      ELSE At(config, p) = BelowOverrides(p)

\* a call has returned a null override over an environment and a secret
\* value, and the lower source's value for a pair whose override is undefined
C7_Witness ==
  /\ Returned
  /\ \E p \in Pairs(Schema) :
       /\ At(Get(opts, "overrides"), p) = Null
       /\ EnvSupplies(p) /\ SecretSupplies(p)
       /\ At(config, p) = Null
  /\ \E p \in Pairs(Schema) :
       /\ p[1] \in Keys(Get(opts, "overrides"))
       /\ p[2] \in Keys(Get(Get(opts, "overrides"), p[1]))
       /\ At(Get(opts, "overrides"), p) = Undefined
       /\ SecretSupplies(p) /\ ~EnvSupplies(p)
       /\ At(config, p) = At(SecretSource, p)

\* C8: the resolved object has exactly the categories and, per category,
\* exactly the keys of the schema, whatever the sources hold
C8_ShapePreserved ==
  pc \in {"secret", "loop", "returned"} =>
    /\ Keys(config) = Keys(Schema)
    /\ \A c \in Keys(Schema) : Keys(Get(config, c)) = Keys(Get(Schema, c))

\* a call has returned although a source holds a category the schema lacks
\* and a key that a category of the schema lacks
C8_Witness ==
  /\ Returned
  /\ \E c \in Keys(Get(opts, "overrides")) \cap Keys(SecretSource) : c \notin Keys(Schema)
  /\ \E p \in Pairs(Get(opts, "overrides")) :
       /\ p[1] \in Keys(Schema)
       /\ p[2] \notin Keys(Get(Schema, p[1]))
       /\ At(Get(opts, "overrides"), p) = Null
       /\ EnvSupplies(p)

\* C9: a .conf.js that cannot be loaded never makes the call fail, and every
\* pair resolves as with an empty secret config
C9_SecretFailureSwallowed ==
  files.secret \in {Missing, LoadError} =>
    /\ ".conf.js" \in required => (pc # "thrown" /\ error = "none" /\ secretConfig = EmptyObj)
    /\ Returned =>
         \A p \in Pairs(Schema) :
           At(config, p) =
             IF OverrideSupplies(p) THEN At(Get(opts, "overrides"), p)
             ELSE IF EnvSupplies(p) THEN EnvironmentValue(impl, opts, EnvOf(p))
             ELSE At(Schema, p)

\* a call has returned a default although loading .conf.js raised an error
C9_Witness ==
  /\ Returned
  /\ files.secret = LoadError
  /\ \E p \in Pairs(Schema) :
       ~OverrideSupplies(p) /\ ~EnvSupplies(p) /\ At(config, p) = At(Schema, p)

\* C10: without a schema and without a loadable .conf.default.js the call
\* fails with the load error and goes no further; with a schema supplied
\* .conf.default.js is never loaded and no load error arises
C10_DefaultSchemaLoad ==
  /\ (~Truthy(configArg) /\ files.default = Missing /\ pc # "start") =>
       /\ pc = "thrown"
       /\ error = "load"
       /\ required = {".conf.default.js"}
       /\ config = configArg
  /\ Truthy(configArg) =>
       /\ ".conf.default.js" \notin required
       /\ error # "load"

\* a call without schema has failed on the missing default file
C10_Witness ==
  /\ ~Truthy(configArg)
  /\ files.default = Missing
  /\ pc = "thrown"
  /\ error = "load"

\* the paths, as sequences of keys, from a value to its undefined leaves
RECURSIVE UndefinedPaths(_)
UndefinedPaths(value) ==
  IF value = Undefined THEN {<<>>}
  ELSE UNION {{<<key>> \o path : path \in UndefinedPaths(value.f[key])} :
              key \in Keys(value)}

\* position of a key in the enumeration order
Position(key) == CHOOSE i \in DOMAIN keyOrder : keyOrder[i] = key

\* p comes before q in a depth-first walk that enumerates keys in keyOrder
RECURSIVE Before(_, _)
Before(p, q) ==
  IF p = <<>> \/ q = <<>> THEN p = <<>>
  ELSE IF Head(p) = Head(q) THEN Before(Tail(p), Tail(q))
  ELSE Position(Head(p)) < Position(Head(q))

\* the undefined leaf a depth-first walk meets first
FirstUndefined ==
  CHOOSE p \in UndefinedPaths(checkArg) : \A q \in UndefinedPaths(checkArg) : Before(p, q)

RECURSIVE Dotted(_)
Dotted(path) ==
  IF Len(path) = 1 THEN path[1] ELSE path[1] \o "." \o Dotted(Tail(path))

Called == checkOut # NotCalled

\* the result is false exactly when an undefined value is reachable, a string
\* is defined and not entered, and a failing call logs one line and makes its
\* last invocation, the only one on an undefined value, on the first leaf
CheckOutcome ==
  /\ checkOut.ok = (UndefinedPaths(checkArg) = {})
  /\ checkArg.t = "str" => (checkOut.ok /\ Len(checkOut.calls) = 1)
  /\ checkOut.ok => checkOut.log = <<>>
  /\ ~checkOut.ok =>
       /\ Len(checkOut.log) = 1
       /\ \A i \in DOMAIN checkOut.calls :
            (checkOut.calls[i].value = Undefined) = (i = Len(checkOut.calls))
       /\ checkOut.calls[Len(checkOut.calls)].key =
            IF FirstUndefined = <<>> THEN "this"
            ELSE FirstUndefined[Len(FirstUndefined)]

EndedAgain == firstResult # NoResult /\ pc \in {"returned", "thrown"}

\* C12: with the sources fixed, loadConfig applied to the object a first
\* call returned returns too, and returns an object equal to it key by key
C12_Idempotent ==
  (EndedAgain /\ firstResult.t = "returned") =>
    /\ pc = "returned"
    /\ Keys(config) = Keys(firstResult.config)
    /\ \A c \in Keys(config) : Keys(Get(config, c)) = Keys(Get(firstResult.config, c))
    /\ \A p \in Pairs(config) : At(config, p) = At(firstResult.config, p)

\* a second call has returned the object of the first, in which a source
\* had replaced a default by an environment value and another by an override
C12_Witness ==
  /\ EndedAgain
  /\ pc = "returned"
  /\ config = firstResult.config
  /\ \E p \in Pairs(Schema) :
       /\ ~OverrideSupplies(p) /\ EnvSupplies(p)
       /\ At(config, p) # At(Schema, p)
  /\ \E p \in Pairs(Schema) :
       /\ OverrideSupplies(p)
       /\ At(config, p) # At(Schema, p)

\* C13: the two definitions of loadConfig agree: on the same schema,
\* overrides, environment, secret config and options they both fail, or
\* both return configurations that are equal key by key
C13_DefinitionsAgree ==
  EndedAgain => Outcome.t = firstResult.t /\
                (pc = "returned" => config = firstResult.config)

====
